---- MODULE Spec2Model ----
(***************************************************************************)
(* Model of the ECS core in src/include/ECS.h (EntityManager,              *)
(* ComponentPool, ComponentManager, SystemManager, ECS) together with the  *)
(* two systems of src/main.cpp (RenderSystem, PhysicSystem).               *)
(*                                                                         *)
(* One action per public method of class ECS.  Every action models the     *)
(* whole call, including the calls it makes into the three managers.       *)
(* Indices of std::vector are 0-based in the variables that store them     *)
(* (entityToIndex, indexToEntity); TLA+ sequences are 1-based, so slot i   *)
(* of a vector is element i + 1 of the sequence that models it.            *)
(*                                                                         *)
(* The caller is the application of main.cpp made nondeterministic: it     *)
(* registers component types and systems before it creates its first       *)
(* entity (pc = "setup"), Transform before Physic, and afterwards creates, *)
(* changes and destroys entities in any order, and at last enters the      *)
(* frame loop of main(), which only calls processSystem.  assignComponent, *)
(* removeComponent and destroyEntity are called on ids the caller holds;   *)
(* getComponent is called on any id in range.  The caller may name a type  *)
(* that has no pool, assign a component an entity already has and remove   *)
(* one it lacks; it may register a type a second time, and a third class   *)
(* (Color) once Transform and Physic have their ids.  A run is followed    *)
(* until it has made MaxOutside calls out of contract, a call has crashed  *)
(* the process or run into undefined behaviour, or the caller has read a   *)
(* component with getComponent.                                            *)
(***************************************************************************)
EXTENDS Integers, Sequences, FiniteSets

(***************************************************************************)
(* Sizes.  MAX_ENTITIES is 512 in ECS.h:12; the model runs the same code   *)
(* with a small pool so that exhaustion and recycling are reached.         *)
(***************************************************************************)
MAX_ENTITIES == 2

MAX_COMPONENTS == 2

\* component values an application stores (stand-ins for Transform/Physic data)
MaxValue == 2

\* most systems the application registers
MaxSystems == 2

\* the deltaTime values a frame passes to processSystem
MaxDelta == 1

\* largest Transform value the frame loop is followed to
MaxY == 3

\* most calls out of contract: calls that name a component type with no pool,
\* or that reach a pool outside the precondition of its add (the entity has
\* no entry) or of its remove and get (the entity has an entry)
MaxOutside == 1

Entity == 0 .. (MAX_ENTITIES - 1)

Values == 1 .. MaxValue

\* the component classes of main.cpp that are used with the ECS
TypeNames == {"Transform", "Physic"}

\* the classes of main.cpp an application can register as component types
ComponentClasses == TypeNames \cup {"Color"}

DeltaTimes == 1 .. MaxDelta

\* the system classes of main.cpp
SystemNames == {"RenderSystem", "PhysicSystem"}

TypeIdRange == 0 .. (MAX_COMPONENTS - 1)

VARIABLES
    availableEntities,   \* EntityManager::availableEntities (FIFO queue)
    signatures,          \* EntityManager::signatures, a set of bit positions per entity
    typeIds,             \* the statics of ComponentManager::getComponentTypeId
    componentPoolArray,  \* ComponentManager::componentPoolArray
    systems,             \* SystemManager::systems
    entitiesVec,         \* SystemManager::entitiesVec
    last,                \* the most recent call on the ECS object and what it returned
    handles,             \* history: per id, how many handles the caller holds
    entries,             \* history: per pool, the entities added and not removed since
    inContract,          \* history: per pool, every call so far met add/remove's precondition
    outside,             \* history: how many calls were out of contract (see MaxOutside)
    processed,           \* history: the process() calls of the most recent processSystem
    pc                   \* the application: "setup" (registration, as initECS), "run" or "loop"

vars == <<availableEntities, signatures, typeIds, componentPoolArray, systems,
          entitiesVec, last, handles, entries, inContract, outside, processed, pc>>

---------------------------------------------------------------------------
(* std::unordered_map<int,int> as a set of <<key, value>> pairs *)

MapKeys(m) == {p[1] : p \in m}

MapHas(m, k) == k \in MapKeys(m)

MapAt(m, k) == (CHOOSE p \in m : p[1] = k)[2]

\* m[k] = v
MapPut(m, k, v) == {p \in m : p[1] # k} \cup {<<k, v>>}

\* the map after evaluating m[k]: operator[] inserts a value-initialised 0 for a missing key
MapIndex(m, k) == IF MapHas(m, k) THEN m ELSE m \cup {<<k, 0>>}

\* m.erase(k)
MapErase(m, k) == {p \in m : p[1] # k}

---------------------------------------------------------------------------
(* ECSUtils::swapRemove on a vector, index 0-based *)

swapRemove(vec, index) ==
    IF Len(vec) = 0 THEN vec
    ELSE IF index < 0 \/ index > Len(vec) - 1 THEN vec
    ELSE [i \in 1 .. (Len(vec) - 1) |-> IF i = index + 1 THEN vec[Len(vec)] ELSE vec[i]]

\* std::find(vec.begin(), vec.end(), x) != vec.end()
Found(vec, x) == \E i \in 1 .. Len(vec) : vec[i] = x

---------------------------------------------------------------------------
(* ComponentManager::getComponentTypeId<T>().  The statics (the counter of  *)
(* the untemplated overload and the `id` of each instantiation) are kept as *)
(* the sequence of the types in the order of their first call: the counter  *)
(* is its length and the id of a type is its position, counted from 0.      *)

\* the statics after a call for type t: the first call for t draws the next counter value
TouchTypeId(ids, t) ==
    IF \E k \in 1 .. Len(ids) : ids[k] = t THEN ids ELSE Append(ids, t)

\* what getComponentTypeId<t>() returns once t has drawn its id
TypeId(ids, t) == (CHOOSE k \in 1 .. Len(ids) : ids[k] = t) - 1

\* the statics after calls for each type of the sequence ts, in order
RECURSIVE TouchAll(_, _)
TouchAll(ids, ts) ==
    IF ts = <<>> THEN ids ELSE TouchAll(TouchTypeId(ids, Head(ts)), Tail(ts))

---------------------------------------------------------------------------
(* ComponentPool<T> *)

nullptr == [isNull |-> TRUE, components |-> <<>>, entityToIndex |-> {}, indexToEntity |-> {}]

NewPool == [isNull |-> FALSE, components |-> <<>>, entityToIndex |-> {}, indexToEntity |-> {}]

\* a variant of add that records the size after the push as the new index
PoolAddOffByOne(pool, entity, component) ==
    LET size == Len(pool.components) + 1
    IN  [pool EXCEPT !.components = Append(@, component),
                     !.entityToIndex = MapPut(@, entity, size),
                     !.indexToEntity = MapPut(@, size, entity)]

PoolAdd(pool, entity, component) ==
    LET size == Len(pool.components) + 1
    IN  [pool EXCEPT !.components = Append(@, component),
                     !.entityToIndex = MapPut(@, entity, size - 1),
                     !.indexToEntity = MapPut(@, size - 1, entity)]

PoolRemove(pool, removeEntity) ==
    LET e2i0 == MapIndex(pool.entityToIndex, removeEntity)
        indexOfRemoveEntity == MapAt(e2i0, removeEntity)
        indexOfLastComponent == Len(pool.components) - 1
        i2e0 == MapIndex(pool.indexToEntity, indexOfLastComponent)
        entityOfLastComponent == MapAt(i2e0, indexOfLastComponent)
        e2i1 == MapPut(e2i0, entityOfLastComponent, indexOfRemoveEntity)
        i2e1 == MapPut(i2e0, indexOfRemoveEntity, entityOfLastComponent)
    IN  [pool EXCEPT !.components = swapRemove(pool.components, indexOfRemoveEntity),
                     !.entityToIndex = MapErase(e2i1, removeEntity),
                     !.indexToEntity = MapErase(i2e1, indexOfRemoveEntity)]

\* the pool after get(entity): entityToIndex[entity] inserts a 0 for a missing key
PoolAfterGet(pool, entity) ==
    [pool EXCEPT !.entityToIndex = MapIndex(@, entity)]

\* What get(entity) can return.  std::vector::operator[] and
\* std::unordered_map::operator[] never throw, so the catch block is dead
\* code.  An index inside the vector yields a pointer to that slot; an index
\* past the end is undefined behaviour, whose outcomes are a null pointer
\* (a vector that never allocated) or a pointer to no live element.
PoolGetResults(pool, entity) ==
    LET index == MapAt(MapIndex(pool.entityToIndex, entity), entity)
    IN  IF index < Len(pool.components)
        THEN {[kind |-> "ptr", idx |-> index, val |-> pool.components[index + 1]]}
        ELSE {[kind |-> "null", idx |-> -1, val |-> 0],
              [kind |-> "dangling", idx |-> index, val |-> 0]}

---------------------------------------------------------------------------
(* EntityManager *)

\* a variant of createNew that leaves the id it issues at the front of the queue
createNewNoPop(queue) == [entity |-> Head(queue), queue |-> queue]

\* createNew() when the queue is not empty: the id issued and the queue left
createNew(queue) == [entity |-> Head(queue), queue |-> Tail(queue)]

\* a variant of destroy that does not return the id to the queue
destroyNoPush(queue, sigs, entity) ==
    [queue |-> queue, sigs |-> [sigs EXCEPT ![entity] = {}]]

\* destroy(entity): the queue and the signatures afterwards
destroy(queue, sigs, entity) ==
    [queue |-> Append(queue, entity), sigs |-> [sigs EXCEPT ![entity] = {}]]

---------------------------------------------------------------------------
(* ComponentManager *)

\* add<T>(entity, component) on the slot of T: nothing when the slot is null
ManagerAdd(pool, entity, component) ==
    IF pool.isNull THEN pool ELSE PoolAdd(pool, entity, component)

\* remove<T>(entity) on the slot of T: nothing when the slot is null
ManagerRemove(pool, entity) ==
    IF pool.isNull THEN pool ELSE PoolRemove(pool, entity)

\* onEntityDestroy(entity): remove(entity) on every pool that exists
ManagerOnEntityDestroy(pools, entity) ==
    [i \in TypeIdRange |-> IF pools[i].isNull THEN pools[i] ELSE PoolRemove(pools[i], entity)]

---------------------------------------------------------------------------
(* ISystem implementations of main.cpp and SystemManager *)

\* the getComponentTypeId<T>() calls getSignature() makes, in order
SystemTypes(name) ==
    IF name = "RenderSystem" THEN <<"Transform">> ELSE <<"Transform", "Physic">>

\* the statics after getSignature() has run on each system of syss, in order
RECURSIVE IdsAfterSignatures(_, _)
IdsAfterSignatures(ids, syss) ==
    IF syss = <<>> THEN ids
    ELSE IdsAfterSignatures(TouchAll(ids, SystemTypes(Head(syss))), Tail(syss))

\* what getSignature() returns once the ids of its types are drawn
SystemSignature(ids, name) ==
    {TypeId(ids, SystemTypes(name)[k]) : k \in 1 .. Len(SystemTypes(name))}

\* one iteration of the loop of onEntitySignatureChange, on one membership list
UpdateMembers(members, systemSignature, entity, signature) ==
    IF (signature \cap systemSignature) = systemSignature
    THEN IF Found(members, entity) THEN members ELSE Append(members, entity)
    ELSE swapRemove(members, entity)

\* onEntitySignatureChange(entity, signature): the membership lists afterwards;
\* ids are the statics after the getSignature() calls of the loop
onEntitySignatureChange(vecs, syss, ids, entity, signature) ==
    [i \in 1 .. Len(syss) |->
        UpdateMembers(vecs[i], SystemSignature(ids, syss[i]), entity, signature)]

\* SystemManager::onEntityDestroy(entity)
SystemsOnEntityDestroy(vecs, entity) ==
    [i \in 1 .. Len(vecs) |-> swapRemove(vecs[i], entity)]

---------------------------------------------------------------------------
(* The record of a call: op, the method; t and e, its type and entity        *)
(* arguments; v, the component passed (for getComponent: see                *)
(* AssignedJustBefore); ret, what it returned or threw; had, whether the    *)
(* entity had been given a component of the type and not lost it since;     *)
(* reg, whether a pool existed for the type.                                *)

NoRet == [kind |-> "void", idx |-> -1, val |-> 0]

Call(op, t, e, v, ret, had, reg) ==
    [op |-> op, t |-> t, e |-> e, v |-> v, ret |-> ret, had |-> had, reg |-> reg]

\* a call through a null pool pointer ended the process
Crashed == last.ret.kind = "crash"

\* a call ran into undefined behaviour and went on: a write past the end of
\* componentPoolArray ("overrun"), or a system that used a pointer to no
\* component ("undefined"); what the program does from there is not followed
Undefined == last.ret.kind \in {"overrun", "undefined"}

Init ==
    /\ availableEntities = [i \in 1 .. MAX_ENTITIES |-> i - 1]
    /\ signatures = [e \in Entity |-> {}]
    /\ typeIds = <<>>
    /\ componentPoolArray = [i \in TypeIdRange |-> nullptr]
    /\ systems = <<>>
    /\ entitiesVec = <<>>
    /\ last = Call("init", "", -1, 0, NoRet, FALSE, FALSE)
    /\ handles = [e \in Entity |-> 0]
    /\ entries = [i \in TypeIdRange |-> {}]
    /\ inContract = [i \in TypeIdRange |-> TRUE]
    /\ outside = 0
    /\ processed = <<>>
    /\ pc = "setup"

\* the caller has just read a component: getComponent is how a run is
\* observed, and a run is followed up to the read
Observed == last.op = "getComponent"

\* the program is followed until it has crashed, run into undefined
\* behaviour, made MaxOutside calls out of contract or been observed
Running == ~Crashed /\ ~Undefined /\ outside < MaxOutside /\ ~Observed

\* the application has not entered the frame loop of main()
BeforeLoop == pc \in {"setup", "run"}

\* counts the call when it is out of contract
CountOutside(out) == outside' = IF out THEN outside + 1 ELSE outside

\* the type has drawn its id and a pool exists in its slot
Registered(t) ==
    /\ \E k \in 1 .. Len(typeIds) : typeIds[k] = t
    /\ TypeId(typeIds, t) \in TypeIdRange
    /\ ~componentPoolArray[TypeId(typeIds, t)].isNull

\* the application registers Transform before Physic, as initECS does, and a
\* further class only after these two
InitOrder(t) ==
    /\ t = "Physic" => Registered("Transform")
    /\ t = "Color" => Registered("Transform") /\ Registered("Physic")

\* ECS::registerComponent<T>(), during setup or, for a type that is
\* registered, at any time before the frame loop.  An id past the end of
\* componentPoolArray makes the assignment of ECS.h:178 a write outside the
\* array: undefined behaviour, which ends the process or overwrites what
\* lies behind the array.
RegisterComponent(t) ==
    LET ids == TouchTypeId(typeIds, t)
        id == TypeId(ids, t)
    IN  /\ Running
        /\ pc = "setup" \/ (pc = "run" /\ Registered(t))
        /\ InitOrder(t)
        /\ typeIds' = ids
        /\ IF id \in TypeIdRange
           THEN /\ componentPoolArray' = [componentPoolArray EXCEPT ![id] = NewPool]
                /\ entries' = [entries EXCEPT ![id] = {}]
                /\ inContract' = [inContract EXCEPT ![id] = TRUE]
                /\ last' = Call("registerComponent", t, -1, 0, NoRet, FALSE, Registered(t))
                /\ CountOutside(entries[id] # {})
           ELSE /\ \E kind \in {"crash", "overrun"} :
                      last' = Call("registerComponent", t, -1, 0,
                                   [kind |-> kind, idx |-> id, val |-> 0], FALSE, FALSE)
                /\ UNCHANGED <<componentPoolArray, entries, inContract, outside>>
        /\ UNCHANGED <<availableEntities, signatures, systems, entitiesVec, handles, processed, pc>>

\* ECS::registerSystem(system): the application registers each system class
\* once, RenderSystem first, as initECS does
RegisterSystem(name) ==
    /\ Running
    /\ pc = "setup"
    /\ Len(systems) < MaxSystems
    /\ ~Found(systems, name)
    /\ name = "PhysicSystem" => Found(systems, "RenderSystem")
    /\ systems' = Append(systems, name)
    /\ entitiesVec' = Append(entitiesVec, <<>>)
    /\ last' = Call("registerSystem", name, -1, 0, NoRet, FALSE, FALSE)
    /\ UNCHANGED <<availableEntities, signatures, typeIds, componentPoolArray,
                   handles, entries, inContract, outside, processed, pc>>

\* ECS::newEntity()
NewEntity ==
    /\ Running
    /\ BeforeLoop
    /\ IF availableEntities = <<>>
       THEN /\ last' = Call("newEntity", "", -1, 0,
                            [kind |-> "exception", idx |-> -1, val |-> 0], FALSE, FALSE)
            /\ UNCHANGED <<availableEntities, handles>>
       ELSE LET r == createNew(availableEntities)
            IN  /\ availableEntities' = r.queue
                /\ handles' = [handles EXCEPT ![r.entity] = @ + 1]
                /\ last' = Call("newEntity", "", r.entity, 0,
                                [kind |-> "id", idx |-> -1, val |-> r.entity], FALSE, FALSE)
    /\ pc' = "run"
    /\ UNCHANGED <<signatures, typeIds, componentPoolArray, systems, entitiesVec,
                   entries, inContract, outside, processed>>

\* ECS::destroyEntity(entity), on a handle the caller holds
DestroyEntity(entity) ==
    LET r == destroy(availableEntities, signatures, entity)
    IN  /\ Running
        /\ BeforeLoop
        /\ handles[entity] > 0
        /\ availableEntities' = r.queue
        /\ signatures' = r.sigs
        /\ componentPoolArray' = ManagerOnEntityDestroy(componentPoolArray, entity)
        /\ entitiesVec' = SystemsOnEntityDestroy(entitiesVec, entity)
        /\ handles' = [handles EXCEPT ![entity] = @ - 1]
        /\ entries' = [i \in TypeIdRange |-> entries[i] \ {entity}]
        /\ inContract' = [i \in TypeIdRange |->
                            inContract[i] /\ (componentPoolArray[i].isNull \/ entity \in entries[i])]
        /\ last' = Call("destroyEntity", "", entity, 0, NoRet, FALSE, FALSE)
        /\ CountOutside(\E i \in TypeIdRange : ~componentPoolArray[i].isNull /\ entity \notin entries[i])
        /\ UNCHANGED <<typeIds, systems, processed, pc>>

\* ECS::assignComponent<T>(entity, component), on a handle the caller holds
AssignComponent(t, entity, component) ==
    LET ids1 == TouchTypeId(typeIds, t)
        id == TypeId(ids1, t)
        pool == componentPoolArray[id]
        signature == signatures[entity] \cup {id}
        ids2 == IdsAfterSignatures(ids1, systems)
    IN  /\ Running
        /\ BeforeLoop
        /\ handles[entity] > 0
        /\ componentPoolArray' = [componentPoolArray EXCEPT ![id] = ManagerAdd(pool, entity, component)]
        /\ signatures' = [signatures EXCEPT ![entity] = signature]
        /\ entitiesVec' = onEntitySignatureChange(entitiesVec, systems, ids2, entity, signature)
        /\ typeIds' = ids2
        /\ entries' = [entries EXCEPT ![id] = IF pool.isNull THEN @ ELSE @ \cup {entity}]
        /\ inContract' = [inContract EXCEPT ![id] = @ /\ (pool.isNull \/ entity \notin entries[id])]
        /\ last' = Call("assignComponent", t, entity, component, NoRet,
                        entity \in entries[id], ~pool.isNull)
        /\ CountOutside(pool.isNull \/ entity \in entries[id])
        /\ UNCHANGED <<availableEntities, systems, handles, processed, pc>>

\* ECS::removeComponent<T>(entity), on a handle the caller holds
RemoveComponent(t, entity) ==
    LET ids1 == TouchTypeId(typeIds, t)
        id == TypeId(ids1, t)
        pool == componentPoolArray[id]
        signature == signatures[entity] \ {id}
        ids2 == IdsAfterSignatures(ids1, systems)
    IN  /\ Running
        /\ BeforeLoop
        /\ handles[entity] > 0
        /\ componentPoolArray' = [componentPoolArray EXCEPT ![id] = ManagerRemove(pool, entity)]
        /\ signatures' = [signatures EXCEPT ![entity] = signature]
        /\ entitiesVec' = onEntitySignatureChange(entitiesVec, systems, ids2, entity, signature)
        /\ typeIds' = ids2
        /\ entries' = [entries EXCEPT ![id] = @ \ {entity}]
        /\ inContract' = [inContract EXCEPT ![id] = @ /\ (pool.isNull \/ entity \in entries[id])]
        /\ last' = Call("removeComponent", t, entity, 0, NoRet,
                        entity \in entries[id], ~pool.isNull)
        /\ CountOutside(pool.isNull \/ entity \notin entries[id])
        /\ UNCHANGED <<availableEntities, systems, handles, processed, pc>>

\* What getComponent<T>(entity) can return.  With no pool registered for T,
\* ComponentManager::get calls get() through a null pointer: undefined
\* behaviour, which ends the process or hands back a pointer to no component.
GetResults(pool, entity) ==
    IF pool.isNull
    THEN {[kind |-> "crash", idx |-> -1, val |-> 0], [kind |-> "dangling", idx |-> -1, val |-> 0]}
    ELSE PoolGetResults(pool, entity)

\* the value the call just before this one assigned, when that call was
\* assignComponent<t>(entity, value); 0 when it was any other call
AssignedJustBefore(t, entity) ==
    IF last.op = "assignComponent" /\ last.t = t /\ last.e = entity THEN last.v ELSE 0

\* ECS::getComponent<T>(entity), on any id in range
GetComponent(t, entity) ==
    LET ids1 == TouchTypeId(typeIds, t)
        id == TypeId(ids1, t)
        pool == componentPoolArray[id]
    IN  /\ Running
        /\ BeforeLoop
        /\ \E ret \in GetResults(pool, entity) :
              last' = Call("getComponent", t, entity, AssignedJustBefore(t, entity), ret,
                           entity \in entries[id], ~pool.isNull)
        /\ componentPoolArray' = [componentPoolArray EXCEPT ![id] =
                                    IF pool.isNull THEN pool ELSE PoolAfterGet(pool, entity)]
        /\ typeIds' = ids1
        /\ inContract' = [inContract EXCEPT ![id] = @ /\ (pool.isNull \/ entity \in entries[id])]
        /\ CountOutside(pool.isNull \/ entity \notin entries[id])
        /\ UNCHANGED <<availableEntities, signatures, systems, entitiesVec, handles, entries,
                       processed, pc>>

---------------------------------------------------------------------------
(* processSystem: SystemManager::process and the process() of the two        *)
(* systems of main.cpp.  A tick works on a record st: pools and ids, the    *)
(* pools and the type-id statics so far; status, "ok" until a system uses a *)
(* pointer to no component; calls, the process() calls made so far.         *)

\* ecs.getComponent<t>(entity) as a system calls it: the pools and statics
\* afterwards, the slot of t, and the position the returned pointer refers
\* to; valid tells whether the pointer refers to a stored component
SystemGet(st, t, entity) ==
    LET ids1 == TouchTypeId(st.ids, t)
        id == TypeId(ids1, t)
        pool == st.pools[id]
        rets == GetResults(pool, entity)
    IN  [pools |-> IF pool.isNull THEN st.pools
                   ELSE [st.pools EXCEPT ![id] = PoolAfterGet(pool, entity)],
         ids |-> ids1,
         id |-> id,
         valid |-> \A ret \in rets : ret.kind = "ptr",
         idx |-> (CHOOSE ret \in rets : TRUE).idx]

\* the loop body of RenderSystem::process: reads through the Transform pointer
RenderSystemStep(st, entity) ==
    LET transform == SystemGet(st, "Transform", entity)
    IN  [st EXCEPT !.pools = transform.pools,
                   !.ids = transform.ids,
                   !.status = IF transform.valid THEN "ok" ELSE "ub"]

\* the loop body of PhysicSystem::process: transform->y += physic->velocity * deltaTime
PhysicSystemStep(st, entity, deltaTime) ==
    LET transform == SystemGet(st, "Transform", entity)
        st1 == [st EXCEPT !.pools = transform.pools, !.ids = transform.ids]
        physic == SystemGet(st1, "Physic", entity)
        velocity == physic.pools[physic.id].components[physic.idx + 1]
    IN  IF transform.valid /\ physic.valid
        THEN [st1 EXCEPT !.pools = [physic.pools EXCEPT
                                       ![transform.id].components[transform.idx + 1] =
                                           @ + velocity * deltaTime],
                         !.ids = physic.ids]
        ELSE [st1 EXCEPT !.pools = physic.pools, !.ids = physic.ids, !.status = "ub"]

\* process(deltaTime, entities, ecs) of the system class `name`
RECURSIVE SystemProcess(_, _, _, _)
SystemProcess(st, name, entities, deltaTime) ==
    IF entities = <<>> \/ st.status # "ok" THEN st
    ELSE SystemProcess(IF name = "RenderSystem"
                       THEN RenderSystemStep(st, Head(entities))
                       ELSE PhysicSystemStep(st, Head(entities), deltaTime),
                       name, Tail(entities), deltaTime)

\* a variant of process whose loop runs from the last system to the first
RECURSIVE processBackwards(_, _, _, _)
processBackwards(st, syss, vecs, deltaTime) ==
    IF syss = <<>> \/ st.status # "ok" THEN st
    ELSE LET n == Len(syss)
         IN  processBackwards(
                 SystemProcess([st EXCEPT !.calls = Append(@, [system |-> syss[n],
                                                              entities |-> vecs[n]])],
                               syss[n], vecs[n], deltaTime),
                 SubSeq(syss, 1, n - 1), SubSeq(vecs, 1, n - 1), deltaTime)

\* SystemManager::process(deltaTime, ecs) on the systems syss with the lists vecs
RECURSIVE process(_, _, _, _)
process(st, syss, vecs, deltaTime) ==
    IF syss = <<>> \/ st.status # "ok" THEN st
    ELSE process(SystemProcess([st EXCEPT !.calls = Append(@, [system |-> Head(syss),
                                                              entities |-> Head(vecs)])],
                               Head(syss), Head(vecs), deltaTime),
                 Tail(syss), Tail(vecs), deltaTime)

\* the keys of entityToIndex in every slot
IndexedEntities(pools) == [i \in TypeIdRange |-> MapKeys(pools[i].entityToIndex)]

\* the tick that processSystem(deltaTime) performs on the current state
Tick(deltaTime) ==
    process([pools |-> componentPoolArray, ids |-> typeIds, status |-> "ok", calls |-> <<>>],
            systems, entitiesVec, deltaTime)

\* ECS::processSystem(deltaTime), called by the frame loop of main()
ProcessSystem(deltaTime) ==
    /\ Running
    /\ \E st \in {Tick(deltaTime)} :
        LET before == IndexedEntities(componentPoolArray)
            after == IndexedEntities(st.pools)
        IN  /\ \A i \in TypeIdRange : \A k \in 1 .. Len(st.pools[i].components) :
                   st.pools[i].components[k] <= MaxY
            /\ componentPoolArray' = st.pools
            /\ typeIds' = st.ids
            /\ processed' = st.calls
            /\ \E kind \in (IF st.status = "ok" THEN {"void"} ELSE {"crash", "undefined"}) :
                   last' = Call("processSystem", "", -1, deltaTime,
                                [kind |-> kind, idx |-> -1, val |-> 0], FALSE, FALSE)
            /\ inContract' = [i \in TypeIdRange |-> inContract[i] /\ after[i] = before[i]]
            /\ CountOutside(after # before \/ st.status # "ok")
    /\ pc' = "loop"
    /\ UNCHANGED <<availableEntities, signatures, systems, entitiesVec, handles, entries>>

Next ==
    \/ \E t \in ComponentClasses : RegisterComponent(t)
    \/ \E name \in SystemNames : RegisterSystem(name)
    \/ NewEntity
    \/ \E entity \in Entity : DestroyEntity(entity)
    \/ \E t \in TypeNames, entity \in Entity, component \in Values :
          AssignComponent(t, entity, component)
    \/ \E t \in TypeNames, entity \in Entity : RemoveComponent(t, entity)
    \/ \E t \in TypeNames, entity \in Entity : GetComponent(t, entity)
    \/ \E deltaTime \in DeltaTimes : ProcessSystem(deltaTime)

Spec == Init /\ [][Next]_vars

---------------------------------------------------------------------------
(* Vocabulary of the properties *)

\* the entities whose handle the caller holds
Live == {e \in Entity : handles[e] > 0}

\* the elements of a vector
Elems(vec) == {vec[k] : k \in 1 .. Len(vec)}

NoDuplicates(vec) == \A j, k \in 1 .. Len(vec) : j # k => vec[j] # vec[k]

\* the signature a registered system requires
Required(name) == SystemSignature(TouchAll(typeIds, SystemTypes(name)), name)

\* the entities whose signature covers the requirement of system number k
Qualifying(k) == {e \in Entity : Required(systems[k]) \subseteq signatures[e]}

\* the entity has an entry in the pool of slot i
HasEntry(i, e) == ~componentPoolArray[i].isNull /\ MapHas(componentPoolArray[i].entityToIndex, e)

\* the slot of the type of the last call
LastId == TypeId(typeIds, last.t)

IsNull(ret) == ret.kind = "null"

Threw(ret) == ret.kind = "exception"

---------------------------------------------------------------------------
\* C1: after every call, the membership list of every registered system
\* holds exactly the entities whose signature covers the system's required
\* signature, each of them once.
C1_MembershipExact ==
    \A k \in 1 .. Len(systems) :
        /\ Elems(entitiesVec[k]) = Qualifying(k)
        /\ NoDuplicates(entitiesVec[k])

\* the two index maps of a pool are inverses of each other
Inverses(pool) ==
    /\ \A p \in pool.entityToIndex : <<p[2], p[1]>> \in pool.indexToEntity
    /\ \A p \in pool.indexToEntity : <<p[2], p[1]>> \in pool.entityToIndex

\* C2: in a pool that has only seen add on entities without an entry and
\* remove on entities with one, entityToIndex and indexToEntity are inverses,
\* the keys of entityToIndex are the entities that have an entry, the keys of
\* indexToEntity are the positions 0 .. size-1, and size is the length of the
\* dense array.
C2_IndexBijection ==
    \A i \in TypeIdRange :
        LET pool == componentPoolArray[i]
        IN  (~pool.isNull /\ inContract[i]) =>
                /\ Inverses(pool)
                /\ MapKeys(pool.entityToIndex) = entries[i]
                /\ MapKeys(pool.indexToEntity) = 0 .. (Len(pool.components) - 1)
                /\ Cardinality(entries[i]) = Len(pool.components)

\* C3: a getComponent<T>(e) that comes right after assignComponent<T>(e, v),
\* T having a pool, returns a pointer to a stored value equal to v.
C3_AssignThenGet ==
    (last.op = "getComponent" /\ last.reg /\ last.v # 0) =>
        (last.ret.kind = "ptr" /\ last.ret.val = last.v)

\* an assign on an entity without the component, then the get, with other entities in the pool
C3_Witness ==
    /\ last.op = "getComponent" /\ last.reg /\ last.v # 0
    /\ last.ret.kind = "ptr" /\ last.ret.idx > 0
    /\ outside = 0

\* C4: getComponent<T>(e), T having a pool, returns the null marker for every
\* entity that has no component of type T, in particular right after
\* removeComponent<T>(e); it never returns a value or reads out of range.
C4_GetAbsentIsNull ==
    (last.op = "getComponent" /\ last.reg /\ ~last.had) => IsNull(last.ret)

\* C5: right after destroyEntity(e), e has no entry in any pool, is in no
\* membership list, and getComponent<T>(e) can only return null for every
\* type T that has a pool.
C5_DestroyPurges ==
    last.op = "destroyEntity" =>
        /\ \A i \in TypeIdRange : ~HasEntry(i, last.e)
        /\ \A k \in 1 .. Len(entitiesVec) : ~Found(entitiesVec[k], last.e)
        /\ \A i \in TypeIdRange :
              ~componentPoolArray[i].isNull =>
                  \A ret \in PoolGetResults(componentPoolArray[i], last.e) : IsNull(ret)

\* C6: after each assignComponent, removeComponent and destroyEntity, whether
\* or not the type has a pool and the entity had the component, bit i of an
\* entity's signature is set exactly when the pool of slot i has an entry for
\* the entity.
C6_SignatureMatchesPools ==
    last.op \in {"assignComponent", "removeComponent", "destroyEntity"} =>
        \A e \in Entity, i \in TypeIdRange : (i \in signatures[e]) <=> HasEntry(i, e)

\* C7: no id is held twice, every id issued or queued lies in
\* [0, MAX_ENTITIES), the ids held are exactly the ids not in the free queue,
\* and no id is queued twice.
C7_LiveIdsDistinct ==
    /\ \A e \in Entity : handles[e] <= 1
    /\ (last.op = "newEntity" /\ last.ret.kind = "id") => last.ret.val \in Entity
    /\ Elems(availableEntities) \subseteq Entity
    /\ Live = Entity \ Elems(availableEntities)
    /\ NoDuplicates(availableEntities)

\* an id issued a second time while a younger id is still held
C7_Witness ==
    /\ last.op = "newEntity" /\ last.ret.kind = "id" /\ last.ret.val = 0
    /\ handles[1] = 1

\* C8: newEntity with MAX_ENTITIES ids held throws and issues no id; with
\* fewer held, so also right after a destroyEntity, it issues an id.
C8_ExhaustionThenRetry ==
    [][last'.op = "newEntity" =>
          IF Cardinality(Live) = MAX_ENTITIES
          THEN Threw(last'.ret) /\ handles' = handles /\ availableEntities' = availableEntities
          ELSE last'.ret.kind = "id" /\ last'.ret.val \notin Live /\ last'.ret.val \in Live']_vars

\* newEntity has just thrown with every id held
C8_Witness ==
    /\ last.op = "newEntity" /\ Threw(last.ret)
    /\ Cardinality(Live) = MAX_ENTITIES

\* C9: assignComponent<T>(e, v) on an entity that already has a component of
\* type T throws, and the pool holds one value per entity afterwards.
C9_DuplicateAssignThrows ==
    (last.op = "assignComponent" /\ last.reg /\ last.had) =>
        /\ Threw(last.ret)
        /\ Len(componentPoolArray[LastId].components) = Cardinality(entries[LastId])

\* C10: removeComponent<T>(e) on an entity that has no component of type T
\* throws, and the pool still holds the value of every entity that has one.
C10_RemoveAbsentThrows ==
    (last.op = "removeComponent" /\ last.reg /\ ~last.had) =>
        /\ Threw(last.ret)
        /\ Len(componentPoolArray[LastId].components) = Cardinality(entries[LastId])

\* C11: assignComponent<T>, removeComponent<T> and getComponent<T> for a type
\* T that has no pool each throw, and none of them changes a signature.
C11_UnregisteredTypeThrows ==
    [][(last'.op \in {"assignComponent", "removeComponent", "getComponent"} /\ ~last'.reg) =>
          (Threw(last'.ret) /\ signatures' = signatures)]_vars

\* C12: registerComponent<T>() for a type whose id is past the last slot of
\* componentPoolArray (a third type with MAX_COMPONENTS = 2) throws and
\* writes no slot outside the array.
C12_ThirdTypeRejected ==
    (last.op = "registerComponent" /\ TypeId(typeIds, last.t) \notin TypeIdRange) =>
        (Threw(last.ret) /\ last.ret.kind # "overrun")

\* C13: registerComponent<T>() for a type that already has a pool changes
\* nothing: T keeps its id, and every entity that had a component of type T
\* still has an entry and getComponent<T> returns the same for it as before.
C13_ReregisterIsNoOp ==
    [][(last'.op = "registerComponent" /\ last'.reg) =>
          LET id == TypeId(typeIds, last'.t)
          IN  /\ TypeId(typeIds', last'.t) = id
              /\ \A e \in entries[id] :
                    /\ MapHas(componentPoolArray'[id].entityToIndex, e)
                    /\ PoolGetResults(componentPoolArray'[id], e) =
                           PoolGetResults(componentPoolArray[id], e)]_vars

\* the system class is registered and the entity is in its list among vecs
Member(vecs, name, e) ==
    \E k \in 1 .. Len(systems) : systems[k] = name /\ Found(vecs[k], e)

\* getComponent<t>(e) on the pools can only return a pointer to the value y
ReadsAs(pools, t, e, y) ==
    \A ret \in PoolGetResults(pools[TypeId(typeIds, t)], e) : ret.kind = "ptr" /\ ret.val = y

\* the call c gave a component of type t to an entity that had none
Assigned(c, t) == c.op = "assignComponent" /\ c.t = t /\ c.reg /\ ~c.had

\* Transform and Physic have pools and PhysicSystem, which requires both, is registered
MotionSetting ==
    Registered("Transform") /\ Registered("Physic") /\ Found(systems, "PhysicSystem")

\* C14: with Transform and Physic registered and PhysicSystem registered,
\* and every call so far within contract: an entity that newEntity has just
\* issued and that is given a Transform is not in PhysicSystem's list; when
\* it is then given a Physic it is in the list; a processSystem(dt) right
\* after that returns and adds velocity * dt to the entity's Transform; a
\* processSystem right after the Transform alone leaves the Transform as it
\* was.
C14_MotionScenario ==
    [][(MotionSetting /\ outside = 0) =>
          LET T == TypeId(typeIds, "Transform")
              P == TypeId(typeIds, "Physic")
              A == last.e
          IN  /\ (last.op = "newEntity" /\ last.ret.kind = "id" /\ Assigned(last', "Transform")
                     /\ last'.e = last.ret.val)
                    => ~Member(entitiesVec', "PhysicSystem", A)
              /\ (Assigned(last, "Transform") /\ A \notin entries[P] /\ Assigned(last', "Physic")
                     /\ last'.e = A)
                    => Member(entitiesVec', "PhysicSystem", A)
              /\ (Assigned(last, "Physic") /\ A \in entries[T] /\ last'.op = "processSystem")
                    => /\ last'.ret.kind = "void"
                       /\ \E y \in 1 .. MaxY, velocity \in Values :
                             /\ ReadsAs(componentPoolArray, "Transform", A, y)
                             /\ ReadsAs(componentPoolArray, "Physic", A, velocity)
                             /\ ReadsAs(componentPoolArray', "Transform", A, y + velocity * last'.v)
              /\ (Assigned(last, "Transform") /\ A \notin entries[P] /\ last'.op = "processSystem")
                    => \E y \in 1 .. MaxY :
                          /\ ReadsAs(componentPoolArray, "Transform", A, y)
                          /\ ReadsAs(componentPoolArray', "Transform", A, y)]_vars

\* C15: destroyEntity(e) leaves every pool in which e has no entry as it
\* was: its dense array and both of its index maps are unchanged, so no
\* other entity loses a component of that type.
C15_DestroyAbsentIsNoOp ==
    [][last'.op = "destroyEntity" =>
          \A i \in TypeIdRange :
              (~componentPoolArray[i].isNull
                  /\ ~MapHas(componentPoolArray[i].entityToIndex, last'.e)) =>
                  componentPoolArray'[i] = componentPoolArray[i]]_vars

\* C16: assignComponent, removeComponent and destroyEntity on entity e
\* change the membership of e only: in every system's list, every other
\* entity is a member afterwards exactly when it was a member before.
C16_RemovalByValue ==
    [][last'.op \in {"assignComponent", "removeComponent", "destroyEntity"} =>
          \A k \in 1 .. Len(systems) : \A other \in Entity \ {last'.e} :
              Found(entitiesVec'[k], other) <=> Found(entitiesVec[k], other)]_vars

\* the call c is a valid change: an assign to an entity without the
\* component, a remove from an entity with it, or a destroy
ValidChange(c) ==
    \/ c.op = "assignComponent" /\ c.reg /\ ~c.had
    \/ c.op = "removeComponent" /\ c.reg /\ c.had
    \/ c.op = "destroyEntity"

\* C17: after a valid assign, remove or destroy that follows only calls
\* within contract, getComponent<T>(e) returns, for every entity e that
\* holds a component of type T, a pointer to a stored value: the value just
\* assigned when the call assigned it, and else the value getComponent<T>(e)
\* returned before the call.
C17_ValuesStayWithEntities ==
    [][(outside = 0 /\ ValidChange(last')) =>
          \A i \in TypeIdRange : \A e \in entries'[i] :
              LET given == /\ last'.op = "assignComponent" /\ last'.e = e
                           /\ TypeId(typeIds', last'.t) = i
              IN  \A ret \in PoolGetResults(componentPoolArray'[i], e) :
                      /\ ret.kind = "ptr"
                      /\ IF given THEN ret.val = last'.v
                         ELSE \A old \in PoolGetResults(componentPoolArray[i], e) :
                                  old.kind = "ptr" /\ ret.val = old.val]_vars

\* C18: the id newEntity has just returned has an empty signature, no entry
\* in any pool, and is in the list of no system that requires a component.
C18_NewEntityStartsClean ==
    (last.op = "newEntity" /\ last.ret.kind = "id") =>
        LET id == last.ret.val
        IN  /\ signatures[id] = {}
            /\ \A i \in TypeIdRange : ~HasEntry(i, id)
            /\ \A k \in 1 .. Len(systems) :
                  Required(systems[k]) # {} => ~Found(entitiesVec[k], id)

\* the process() calls a complete tick makes: one per registered system, in
\* the order of registration, each with the system's own list
RegisteredInOrder ==
    [k \in 1 .. Len(systems) |-> [system |-> systems[k], entities |-> entitiesVec[k]]]

\* C19: a processSystem that returns has called process once on every
\* registered system, in the order of registration, each with its own
\* membership list; one that a system ends early has made a first part of
\* these calls, up to that system.
C19_ProcessInRegistrationOrder ==
    last.op = "processSystem" =>
        IF last.ret.kind = "void"
        THEN processed = RegisteredInOrder
        ELSE /\ Len(processed) \in 1 .. Len(systems)
             /\ processed = SubSeq(RegisteredInOrder, 1, Len(processed))

\* a tick that returned after it ran two systems with different lists
C19_Witness ==
    /\ last.op = "processSystem" /\ last.ret.kind = "void"
    /\ Len(processed) = 2
    /\ Len(processed[1].entities) = 2
    /\ Len(processed[2].entities) = 1

\* C20: getComponent<T>(e) changes nothing, whether or not e has a
\* component of type T: every pool (dense array and both index maps), every
\* signature and every membership list is as before.
C20_GetIsPure ==
    [][last'.op = "getComponent" =>
          /\ componentPoolArray' = componentPoolArray
          /\ signatures' = signatures
          /\ entitiesVec' = entitiesVec]_vars

====
